---- MODULE Spec2Model ----
(***************************************************************************)
(* Indexadillo API gateway (src/src/function_app.py): API-key              *)
(* authentication, the per-tenant two-window rate limiter and usage        *)
(* metering that wrap every /api/v1 endpoint.                              *)
(***************************************************************************)
EXTENDS Integers, Sequences, FiniteSets, TLC

(***************************************************************************)
(* Bounds of the model.                                                    *)
(***************************************************************************)
\* How many times, in one run of the limiter load pattern, the client may
\* stop a burst before the limiter has refused it (a partial burst, or an
\* instant with no request at all).
MaxPartial == 1
\* How many requests arrive in one run of the gateway.
MaxRequests == 3
\* How many invocations (requests to stage endpoints, storage events) one run
\* of the stage endpoints has.
MaxInvocations == 1

(***************************************************************************)
(* Program constants.                                                      *)
(***************************************************************************)
\* check_rate_limits: "current_time - timestamp < 3600"
HourWindow == 3600
\* check_rate_limits: "current_time - timestamp < 60"
MinuteWindow == 60
\* check_rate_limits: "retry_after": 60
MinuteRetryAfter == 60

\* check_rate_limits: the plan table `limits`.
limits ==
  [free         |-> [requests_per_minute |-> 10,    requests_per_hour |-> 100],
   developer    |-> [requests_per_minute |-> 100,   requests_per_hour |-> 2000],
   basic        |-> [requests_per_minute |-> 100,   requests_per_hour |-> 2000],
   professional |-> [requests_per_minute |-> 1000,  requests_per_hour |-> 50000],
   enterprise   |-> [requests_per_minute |-> 10000, requests_per_hour |-> 500000]]

(***************************************************************************)
(* Tenants.  A user record is what validate_api_key returns: the dev       *)
(* fallback's literal, or an item of the api_users container.  An item     *)
(* may lack the 'plan' key or carry a plan the table does not know.        *)
(***************************************************************************)
DevUser == [id |-> "dev_user", plan |-> "developer", active |-> TRUE,
            name |-> "Development User"]

\* The items of the api_users container (Principal Store), by id.
StoreItems ==
  [u_free |-> [id |-> "u_free", api_key |-> "key_free", plan |-> "free",
               active |-> TRUE, last_used |-> 0],
   u_gold |-> [id |-> "u_gold", api_key |-> "key_gold", plan |-> "gold",
               active |-> TRUE, last_used |-> 0],
   u_bare |-> [id |-> "u_bare", api_key |-> "key_bare",
               active |-> TRUE, last_used |-> 0],
   u_off  |-> [id |-> "u_off",  api_key |-> "key_off",  plan |-> "free",
               active |-> FALSE, last_used |-> 0]]

StoreIds == DOMAIN StoreItems
UserIds == StoreIds \cup {DevUser.id}

\* user.get('plan', 'free')
UserPlan(user) == IF "plan" \in DOMAIN user THEN user.plan ELSE "free"

\* Mutant of PlanLimits: a plan the table does not know gets the developer row.
PlanLimits_Loose(plan) ==
  IF plan \in DOMAIN limits THEN limits[plan] ELSE limits["developer"]

\* limits.get(plan, limits['free'])
PlanLimits(plan) == IF plan \in DOMAIN limits THEN limits[plan] ELSE limits["free"]

(***************************************************************************)
(* HTTP responses: func.HttpResponse(json.dumps(body), status_code=...).   *)
(* NoResponse is check_rate_limits returning None.                         *)
(***************************************************************************)
HttpResponse(status, body) == [status_code |-> status, body |-> body]
NoResponse == [status_code |-> 0, body |-> [none |-> TRUE]]

(***************************************************************************)
(* check_rate_limits                                                       *)
(***************************************************************************)
\* Mutant of CleanOld: an entry exactly one hour old is kept.
CleanOld_Le(window, current_time) ==
  SelectSeq(window, LAMBDA timestamp : current_time - timestamp <= HourWindow)

\* "Clean old entries (older than 1 hour)"
CleanOld(window, current_time) ==
  SelectSeq(window, LAMBDA timestamp : current_time - timestamp < HourWindow)

\* Mutant of RecentRequests: an entry exactly one minute old is counted.
RecentRequests_Le(window, current_time) ==
  SelectSeq(window, LAMBDA timestamp : current_time - timestamp <= MinuteWindow)

\* recent_requests
RecentRequests(window, current_time) ==
  SelectSeq(window, LAMBDA timestamp : current_time - timestamp < MinuteWindow)

\* Mutant of HourlyExceeded: off by one, admits one request too many.
HourlyExceeded_Gt(hourly_requests, plan_limits) ==
  hourly_requests > plan_limits.requests_per_hour

\* "if hourly_requests >= plan_limits['requests_per_hour']"
HourlyExceeded(hourly_requests, plan_limits) ==
  hourly_requests >= plan_limits.requests_per_hour

\* Mutant of MinuteExceeded: off by one, admits one request too many.
MinuteExceeded_Gt(recent_requests, plan_limits) ==
  Len(recent_requests) > plan_limits.requests_per_minute

\* "if len(recent_requests) >= plan_limits['requests_per_minute']"
MinuteExceeded(recent_requests, plan_limits) ==
  Len(recent_requests) >= plan_limits.requests_per_minute

HourlyResponse(plan_limits, current_time) ==
  HttpResponse(429, [error |-> "Hourly rate limit exceeded",
                     code |-> "RATE_LIMIT_EXCEEDED",
                     limit |-> plan_limits.requests_per_hour,
                     window |-> "hour",
                     retry_after |-> HourWindow - (current_time % HourWindow)])

\* Mutant of MinuteResponse: the refusal reports the hourly window.
MinuteResponse_Hour(plan_limits) ==
  HttpResponse(429, [error |-> "Per-minute rate limit exceeded",
                     code |-> "RATE_LIMIT_EXCEEDED",
                     limit |-> plan_limits.requests_per_hour,
                     window |-> "hour",
                     retry_after |-> MinuteRetryAfter])

MinuteResponse(plan_limits) ==
  HttpResponse(429, [error |-> "Per-minute rate limit exceeded",
                     code |-> "RATE_LIMIT_EXCEEDED",
                     limit |-> plan_limits.requests_per_minute,
                     window |-> "minute",
                     retry_after |-> MinuteRetryAfter])

\* Mutant of CheckRateLimits: the per-minute check is made first.
CheckRateLimits_MinuteFirst(user, current_time, storage) ==
  LET user_id == user.id
      plan_limits == PlanLimits(UserPlan(user))
      cleaned == CleanOld(storage[user_id], current_time)
      pruned == [storage EXCEPT ![user_id] = cleaned]
  IN IF MinuteExceeded(RecentRequests(cleaned, current_time), plan_limits)
       THEN [storage |-> pruned, response |-> MinuteResponse(plan_limits)]
     ELSE IF HourlyExceeded(Len(cleaned), plan_limits)
       THEN [storage |-> pruned, response |-> HourlyResponse(plan_limits, current_time)]
     ELSE [storage |-> [pruned EXCEPT ![user_id] = Append(cleaned, current_time)],
           response |-> NoResponse]

\* Mutant of CheckRateLimits: the check and the append are not one step; the
\* check is made on the window as it was before the latest append to it.
CheckRateLimits_Racy(user, current_time, storage) ==
  LET user_id == user.id
      plan_limits == PlanLimits(UserPlan(user))
      cleaned == CleanOld(storage[user_id], current_time)
      seen == IF cleaned = <<>> THEN cleaned ELSE SubSeq(cleaned, 1, Len(cleaned) - 1)
      pruned == [storage EXCEPT ![user_id] = cleaned]
  IN IF HourlyExceeded(Len(seen), plan_limits)
       THEN [storage |-> pruned, response |-> HourlyResponse(plan_limits, current_time)]
     ELSE IF MinuteExceeded(RecentRequests(seen, current_time), plan_limits)
       THEN [storage |-> pruned, response |-> MinuteResponse(plan_limits)]
     ELSE [storage |-> [pruned EXCEPT ![user_id] = Append(cleaned, current_time)],
           response |-> NoResponse]

\* Mutant of CheckRateLimits: a refused request is entered in the window too.
CheckRateLimits_CountRejected(user, current_time, storage) ==
  LET user_id == user.id
      plan_limits == PlanLimits(UserPlan(user))
      cleaned == CleanOld(storage[user_id], current_time)
      counted == [storage EXCEPT ![user_id] = Append(cleaned, current_time)]
  IN IF HourlyExceeded(Len(cleaned), plan_limits)
       THEN [storage |-> counted, response |-> HourlyResponse(plan_limits, current_time)]
     ELSE IF MinuteExceeded(RecentRequests(cleaned, current_time), plan_limits)
       THEN [storage |-> counted, response |-> MinuteResponse(plan_limits)]
     ELSE [storage |-> counted, response |-> NoResponse]

\* Mutant of CheckRateLimits: all tenants share the window of the first.
CheckRateLimits_Shared(user, current_time, storage) ==
  LET user_id == CHOOSE id \in DOMAIN storage : \A other \in DOMAIN storage :
                   Len(storage[other]) <= Len(storage[id])
      plan_limits == PlanLimits(UserPlan(user))
      cleaned == CleanOld(storage[user_id], current_time)
      pruned == [storage EXCEPT ![user_id] = cleaned]
  IN IF HourlyExceeded(Len(cleaned), plan_limits)
       THEN [storage |-> pruned, response |-> HourlyResponse(plan_limits, current_time)]
     ELSE IF MinuteExceeded(RecentRequests(cleaned, current_time), plan_limits)
       THEN [storage |-> pruned, response |-> MinuteResponse(plan_limits)]
     ELSE [storage |-> [pruned EXCEPT ![user_id] = Append(cleaned, current_time)],
           response |-> NoResponse]

\* check_rate_limits(user, req) run at time current_time on rate_limit_storage:
\* the storage it leaves and the response it returns (NoResponse: admitted).
CheckRateLimits(user, current_time, storage) ==
  LET user_id == user.id
      plan_limits == PlanLimits(UserPlan(user))
      cleaned == CleanOld(storage[user_id], current_time)
      pruned == [storage EXCEPT ![user_id] = cleaned]
      hourly_requests == Len(cleaned)
      recent_requests == RecentRequests(cleaned, current_time)
  IN IF HourlyExceeded(hourly_requests, plan_limits)
       THEN [storage |-> pruned, response |-> HourlyResponse(plan_limits, current_time)]
     ELSE IF MinuteExceeded(recent_requests, plan_limits)
       THEN [storage |-> pruned, response |-> MinuteResponse(plan_limits)]
     ELSE [storage |-> [pruned EXCEPT ![user_id] = Append(cleaned, current_time)],
           response |-> NoResponse]

(***************************************************************************)
(* APIAuthManager                                                          *)
(***************************************************************************)
NoUser == [id |-> ""]

\* The credentials clients present: none, a 'dev_' key, the keys of the store
\* items, and a key no item has.
ApiKeys == {"", "dev_1", "key_free", "key_gold", "key_bare", "key_off", "key_none"}

\* api_key.startswith('dev_')
StartsWithDev(api_key) == api_key \in {"dev_1"}

\* APIAuthManager.__init__: what building the Cosmos client can do.  With
\* COSMOS_ENDPOINT and COSMOS_KEY set: the client and its containers are
\* obtained ("ok"), CosmosClient(...) raises, which is outside the try
\* ("ctor_error"), or get_database_client/get_container_client raises, which
\* is caught and leaves cosmos_client = None ("db_error").
ConnectOutcomes(configured) ==
  IF configured THEN {"ok", "ctor_error", "db_error"} ELSE {"unconfigured"}

\* self.cosmos_client is not None
HasClient(conn) == conn = "ok"

\* What the store does during validate_api_key: it answers, query_items
\* raises, or replace_item raises.
LookupOutcomes == {"ok", "query_error", "replace_error"}

\* Mutant of QueryItems: the query does not ask for c.active = true.
QueryItems_AnyActive(api_key, users) ==
  {id \in DOMAIN users : users[id].api_key = api_key}

\* "SELECT * FROM c WHERE c.api_key = @api_key AND c.active = true"
QueryItems(api_key, users) ==
  {id \in DOMAIN users : users[id].api_key = api_key /\ users[id].active}

\* validate_api_key(api_key) at time t on the api_users container: the user
\* it returns (NoUser: None) and the container it leaves.
ValidateApiKey(api_key, conn, lookup, t, users) ==
  IF ~HasClient(conn)
    THEN [user |-> IF StartsWithDev(api_key) THEN DevUser ELSE NoUser,
          users |-> users]
  ELSE IF lookup = "query_error"
    THEN [user |-> NoUser, users |-> users]
  ELSE LET items == QueryItems(api_key, users)
       IN IF items = {}
            THEN [user |-> NoUser, users |-> users]
          ELSE LET id == CHOOSE x \in items : TRUE
                   found == [users[id] EXCEPT !.last_used = t]
               IN IF lookup = "replace_error"
                    THEN [user |-> NoUser, users |-> users]
                    ELSE [user |-> found, users |-> [users EXCEPT ![id] = found]]

MissingKeyResponse ==
  HttpResponse(401, [error |-> "API key required", code |-> "MISSING_API_KEY"])

InvalidKeyResponse ==
  HttpResponse(401, [error |-> "Invalid API key", code |-> "INVALID_API_KEY"])

\* An exception that leaves the function: the host answers 500, no JSON body.
UnhandledException == [status_code |-> 500, body |-> [unhandled |-> TRUE]]

(***************************************************************************)
(* Endpoints and what their handlers return.                               *)
(***************************************************************************)
Endpoints == {"document_extract", "text_chunk", "generate_embeddings",
              "pipeline_complete", "job_status", "search"}

\* The endpoints decorated with @track_usage(<name>); the name given is the
\* endpoint's.
TrackUsage == {"document_extract", "text_chunk", "generate_embeddings",
               "pipeline_complete", "search"}

ErrorBody(code) == [error |-> code, code |-> code]

\* "except Exception as e": {"error": "... failed", "details": str(e)}, 500.
FailureBody(details) == [error |-> "failed", details |-> details]
FailureResponse(details) == HttpResponse(500, FailureBody(details))

MiB == 1024 * 1024

\* api_document_extract: size_limits, in bytes.
size_limits ==
  [free         |-> 5 * MiB,
   developer    |-> 25 * MiB,
   basic        |-> 25 * MiB,
   professional |-> 100 * MiB,
   enterprise   |-> 500 * MiB]

\* size_limits.get(plan, size_limits['free'])
SizeLimit(plan) ==
  IF plan \in DOMAIN size_limits THEN size_limits[plan] ELSE size_limits["free"]

\* Mutant of FileTooLarge: an upload of exactly the limit is refused.
FileTooLarge_Ge(file_size, plan) == file_size >= SizeLimit(plan)

\* "if len(file_data) > size_limits.get(plan, size_limits['free'])"
FileTooLarge(file_size, plan) == file_size > SizeLimit(plan)

\* f"{size_limits.get(plan, size_limits['free']) // (1024*1024)}MB"
MaxSize(plan) == ToString(SizeLimit(plan) \div MiB) \o "MB"

FileTooLargeResponse(plan) ==
  HttpResponse(413, [error |-> "File size exceeds plan limit",
                     code |-> "FILE_TOO_LARGE",
                     max_size |-> MaxSize(plan),
                     plan |-> plan])

\* api_generate_embeddings: "if len(data['texts']) > 100"
BatchLimit == 100

\* Mutant of BatchTooLarge: a batch of exactly 100 is refused.
BatchTooLarge_Ge(texts) == texts >= BatchLimit

BatchTooLarge(texts) == texts > BatchLimit

\* call_activity_direct: timeout_seconds
timeout_seconds == 300

\* What call_activity_direct raises: f"Activity failed: {status.output}",
\* "Activity timeout", and the NameError of "await asyncio.sleep(2)": the
\* module never imports asyncio.
ActivityFailed(output) == "Activity failed: " \o output
ActivityTimeout == "Activity timeout"
AsyncioNameError == "name 'asyncio' is not defined"

\* What a stage leaves as the output of a failed job, and what
\* upload_temp_document raises.
StageError == "stage error"
UploadError == "upload failed"
JsonError == "invalid json"

\* The plans a user record can carry.
UserPlans == {UserPlan(DevUser)} \cup {UserPlan(StoreItems[id]) : id \in StoreIds}

\* What the handlers answer once their stage has completed.
Extracted == HttpResponse(200, [page_count |-> 2])
Chunked == HttpResponse(200, [chunk_count |-> 1, total_tokens |-> 600])
Embedded == HttpResponse(200, [model |-> "text-embedding-3-large", total_tokens |-> 3])
Processing == HttpResponse(202, [status |-> "processing"])

\* The responses an endpoint's handler can return.  Every handler catches
\* Exception and answers 500 with {error, details}.
HandlerResponses(endpoint) ==
  CASE endpoint = "document_extract" ->
         {HttpResponse(400, ErrorBody("MISSING_DOCUMENT")),
          HttpResponse(400, ErrorBody("INVALID_JSON")),
          HttpResponse(400, ErrorBody("MISSING_URL")),
          Extracted}
         \cup {FileTooLargeResponse(plan) : plan \in UserPlans}
         \cup {FailureResponse(e) : e \in {UploadError, ActivityFailed(StageError),
                                           AsyncioNameError}}
    [] endpoint = "text_chunk" ->
         {HttpResponse(400, ErrorBody("MISSING_TEXT")),
          Chunked}
         \cup {FailureResponse(e) : e \in {JsonError, ActivityFailed(StageError),
                                           AsyncioNameError}}
    [] endpoint = "generate_embeddings" ->
         {HttpResponse(400, ErrorBody("MISSING_TEXTS")),
          HttpResponse(400, ErrorBody("BATCH_TOO_LARGE")),
          Embedded}
         \cup {FailureResponse(e) : e \in {JsonError, ActivityFailed(StageError),
                                           AsyncioNameError}}
    [] endpoint = "pipeline_complete" ->
         {HttpResponse(400, ErrorBody("MISSING_DOCUMENT")),
          HttpResponse(400, ErrorBody("MISSING_URL")),
          Processing}
         \cup {FailureResponse(e) : e \in {UploadError, JsonError}}
    [] endpoint = "job_status" ->
         {HttpResponse(404, ErrorBody("JOB_NOT_FOUND")),
          HttpResponse(200, [status |-> "completed"]),
          FailureResponse("exception")}
    [] endpoint = "search" ->
         {HttpResponse(400, ErrorBody("MISSING_QUERY")),
          HttpResponse(200, [total_results |-> 0]),
          FailureResponse("exception")}

(***************************************************************************)
(* track_usage and UsageTracker                                            *)
(***************************************************************************)
\* Mutant of Success: a 400 counts as a success.
Success_Le(result) == result.status_code <= 400

\* success = result.status_code < 400
Success(result) == result.status_code < 400

\* tokens_used = response_data.get('total_tokens', 0), for a success only
TokensUsed(result) ==
  IF result.status_code < 400 /\ "total_tokens" \in DOMAIN result.body
    THEN result.body.total_tokens ELSE 0

\* pages_processed = response_data.get('page_count', 0), for a success only
PagesProcessed(result) ==
  IF result.status_code < 400 /\ "page_count" \in DOMAIN result.body
    THEN result.body.page_count ELSE 0

\* UsageTracker.__init__ and record_usage: with the store configured the
\* record is created ("written"), the client cannot be built, which leaves
\* cosmos_client = None ("connect_failed"), or create_item raises, which is
\* logged ("write_failed"); without it the usage is only logged.
MeterOutcomes(configured) ==
  IF configured THEN {"written", "connect_failed", "write_failed"}
  ELSE {"unconfigured"}

\* usage_record
UsageRecord(user_id, endpoint, t, tokens_used, pages_processed, success) ==
  [user_id |-> user_id, endpoint |-> endpoint, timestamp |-> t,
   tokens_used |-> tokens_used, pages_processed |-> pages_processed,
   success |-> success]

(***************************************************************************)
(* State.                                                                  *)
(***************************************************************************)
VARIABLES
  now,                 \* int(time.time())
  rate_limit_storage,  \* user id -> list of timestamps (defaultdict(list))
  cosmos_configured,   \* COSMOS_ENDPOINT and COSMOS_KEY are both set
  api_users,           \* the api_users container: id -> item
  usage_container,     \* the api_usage container: the items each request created
  pc,                  \* request -> where it is in require_api_key / track_usage
  req,                 \* request -> its endpoint and credential
  user,                \* request -> req.user
  result,              \* request -> what the endpoint handler returned
  response,            \* request -> what the client is answered
  hist,                \* history: request -> the calls made for it, in order
  served,              \* environment: how many requests have arrived
  admitted,            \* history: user id -> times at which a request was admitted
  rl_last,             \* history: the latest check_rate_limits call and its result
  start,               \* environment: the time of the first instant
  partials,            \* limiter load pattern: bursts stopped before a refusal
  input,               \* request -> what the request carries for its handler
  blobs,               \* the blobs uploaded to the api-temp container
  jobs,                \* the orchestration instances started: instance id -> job
  bridge,              \* request -> the locals of its call_activity_direct
  events,              \* history: the storage events delivered, in order
  environ,             \* os.environ: the service settings that are set
  seen                 \* history: the latest status a poll observed, per instance

limiterVars == <<rate_limit_storage, admitted, rl_last>>
requestVars == <<pc, req, user, result, response, hist>>
storeVars == <<api_users, usage_container>>
envVars == <<cosmos_configured, start, partials, environ, seen>>
stageVars == <<input, blobs, jobs, bridge, events>>

vars == <<now, rate_limit_storage, cosmos_configured, api_users, usage_container,
          pc, req, user, result, response, hist, served, admitted, rl_last,
          start, partials, input, blobs, jobs, bridge, events, environ, seen>>

\* The requests in flight at once.
Requests == {1, 2}

NoCall == [user_id |-> "", time |-> -1, hourly_before |-> 0, minute_before |-> 0,
           response |-> NoResponse]

NoRequest == [endpoint |-> "", api_key |-> ""]

\* A request that carries nothing: no file, no JSON fields.
NoInput == [content_type |-> "", has_document |-> FALSE, file_size |-> 0,
            json |-> FALSE, document_url |-> FALSE, has_text |-> FALSE,
            texts |-> -1, q |-> FALSE, index_name |-> "", job_id |-> 0]

\* call_activity_direct not entered.
NoBridge == [instance_id |-> 0, start_time |-> 0, status |-> "", raised |-> ""]

\* History of one request: the calls made for it in order, what the store did
\* at authentication (conn, lookup) and at metering (meter), and whether
\* another request of the same tenant was waiting for its own rate-limit
\* check when this one's was made.
NoHistory == [steps |-> <<>>, conn |-> "", lookup |-> "", meter |-> "",
              raced |-> FALSE]

\* How many of the times in log are younger than window at time t.
CountWithin(log, t, window) == Len(SelectSeq(log, LAMBDA ts : t - ts < window))

\* The record kept of one check_rate_limits call: who called, when, how many
\* requests of the caller had been admitted in the hour and in the minute
\* before the call, and the response.
CallRecord(caller, current_time, log, outcome) ==
  [user_id |-> caller.id, time |-> current_time,
   hourly_before |-> CountWithin(log[caller.id], current_time, HourWindow),
   minute_before |-> CountWithin(log[caller.id], current_time, MinuteWindow),
   response |-> outcome.response]

Admitted(outcome) == outcome.response = NoResponse

Range(seq) == {seq[i] : i \in DOMAIN seq}

StartTimes == {1}

InitCommon ==
  /\ start \in StartTimes
  /\ now = start
  /\ rate_limit_storage = [u \in UserIds |-> <<>>]
  /\ api_users = StoreItems
  /\ usage_container = [r \in Requests |-> <<>>]
  /\ pc = [r \in Requests |-> "idle"]
  /\ req = [r \in Requests |-> NoRequest]
  /\ user = [r \in Requests |-> NoUser]
  /\ result = [r \in Requests |-> NoResponse]
  /\ response = [r \in Requests |-> NoResponse]
  /\ hist = [r \in Requests |-> NoHistory]
  /\ served = 0
  /\ admitted = [u \in UserIds |-> <<>>]
  /\ rl_last = NoCall
  /\ partials = 0
  /\ input = [r \in Requests |-> NoInput]
  /\ blobs = {}
  /\ jobs = <<>>
  /\ bridge = [r \in Requests |-> NoBridge]
  /\ events = <<>>
  /\ seen = {}

(***************************************************************************)
(* require_api_key(track_usage(handler)): one request.                     *)
(***************************************************************************)
\* A request for `endpoint` arrives carrying `api_key` (the X-API-Key header,
\* or the Authorization header less 'Bearer ') and `payload`.
Receive(r, endpoint, api_key, payload) ==
  /\ pc[r] = "idle"
  /\ pc' = [pc EXCEPT ![r] = "received"]
  /\ req' = [req EXCEPT ![r] = [endpoint |-> endpoint, api_key |-> api_key]]
  /\ input' = [input EXCEPT ![r] = payload]
  /\ UNCHANGED <<now, limiterVars, storeVars, envVars, blobs, jobs, bridge, events,
                 user, result, response, hist>>

\* One of at most MaxRequests requests arrives, for any endpoint with any key.
Arrive(r) ==
  /\ served < MaxRequests
  /\ served' = served + 1
  /\ \E endpoint \in Endpoints, api_key \in ApiKeys :
       Receive(r, endpoint, api_key, NoInput)

\* A request of the free tenant arrives: the tenant keeps calling.
ArriveLoad(r) ==
  /\ UNCHANGED served
  /\ \E endpoint \in {"search", "job_status"} :
       Receive(r, endpoint, "key_free", NoInput)

\* The request is answered `answer` and goes no further.
Answer(r, answer) ==
  /\ pc' = [pc EXCEPT ![r] = "done"]
  /\ response' = [response EXCEPT ![r] = answer]

\* Mutant of Reject: the refused request is metered all the same.
Reject_Metered(r, answer) ==
  /\ Answer(r, answer)
  /\ usage_container' = [usage_container EXCEPT ![r] =
        Append(@, UsageRecord("anonymous", req[r].endpoint, now, 0, 0, FALSE))]
  /\ UNCHANGED <<user, limiterVars>>

\* "return func.HttpResponse(..., status_code=401, ...)" of require_api_key:
\* nothing else is done for the request.
Reject(r, answer) ==
  /\ Answer(r, answer)
  /\ UNCHANGED <<user, usage_container, limiterVars>>

\* decorated_function of require_api_key up to "req.user = user".
Authenticate(r) ==
  /\ pc[r] = "received"
  /\ IF req[r].api_key = ""
       THEN /\ Reject(r, MissingKeyResponse)
            /\ hist' = [hist EXCEPT ![r].steps = Append(@, "missing_api_key")]
            /\ UNCHANGED api_users
       ELSE \E conn \in ConnectOutcomes(cosmos_configured) :
            \E lookup \in (IF HasClient(conn) THEN LookupOutcomes ELSE {""}) :
              IF conn = "ctor_error"
                THEN /\ Answer(r, UnhandledException)
                     /\ hist' = [hist EXCEPT ![r].steps = Append(@, "APIAuthManager"),
                                             ![r].conn = conn]
                     /\ UNCHANGED <<user, api_users, usage_container, limiterVars>>
                ELSE LET found == ValidateApiKey(req[r].api_key, conn, lookup,
                                                 now, api_users)
                     IN /\ hist' = [hist EXCEPT
                                      ![r].steps = Append(@, "validate_api_key"),
                                      ![r].conn = conn, ![r].lookup = lookup]
                        /\ api_users' = found.users
                        /\ IF found.user = NoUser
                             THEN Reject(r, InvalidKeyResponse)
                             ELSE /\ user' = [user EXCEPT ![r] = found.user]
                                  /\ pc' = [pc EXCEPT ![r] = "authenticated"]
                                  /\ UNCHANGED <<response, usage_container, limiterVars>>
  /\ UNCHANGED <<now, envVars, stageVars, req, result, served>>

\* Mutant of Proceed: a refusal is not returned, the handler is called anyway.
Proceed_Always(r, outcome) ==
  /\ pc' = [pc EXCEPT ![r] = "admitted"]
  /\ response' = [response EXCEPT ![r] = outcome.response]

\* "if rate_limit_result: return rate_limit_result", else on to the handler.
Proceed(r, outcome) ==
  IF Admitted(outcome)
    THEN /\ pc' = [pc EXCEPT ![r] = "admitted"]
         /\ UNCHANGED response
    ELSE Answer(r, outcome.response)

\* "rate_limit_result = await check_rate_limits(user, req)" and the return
\* of its response, if any.
RateLimit(r) ==
  /\ pc[r] = "authenticated"
  /\ LET outcome == CheckRateLimits(user[r], now, rate_limit_storage)
     IN /\ rate_limit_storage' = outcome.storage
        /\ rl_last' = CallRecord(user[r], now, admitted, outcome)
        /\ hist' = [hist EXCEPT
                      ![r].steps = Append(@, "check_rate_limits"),
                      ![r].raced = \E q \in Requests \ {r} :
                                      /\ pc[q] = "authenticated"
                                      /\ user[q].id = user[r].id]
        /\ admitted' = IF Admitted(outcome)
                         THEN [admitted EXCEPT ![user[r].id] = Append(@, now)]
                         ELSE admitted
        /\ Proceed(r, outcome)
  /\ UNCHANGED <<now, storeVars, envVars, stageVars, req, user, result, served>>

\* "return await f(req, *args, **kwargs)": the endpoint's handler runs, inside
\* track_usage if the endpoint has it, and returns its response.
InvokeHandler(r) ==
  /\ pc[r] = "admitted"
  /\ \E answer \in HandlerResponses(req[r].endpoint) :
       /\ result' = [result EXCEPT ![r] = answer]
       /\ hist' = [hist EXCEPT ![r].steps = Append(@, "handler")]
       /\ IF req[r].endpoint \in TrackUsage
            THEN /\ pc' = [pc EXCEPT ![r] = "metering"]
                 /\ UNCHANGED response
            ELSE Answer(r, answer)
  /\ UNCHANGED <<now, limiterVars, storeVars, envVars, stageVars, req, user, served>>

\* "result = await f(req, *args, **kwargs)" of track_usage for any wrapped f:
\* f returns a response, or raises; "except Exception ... raise" passes the
\* exception on once the finally block has run, and the host answers 500.
\* success, tokens_used and pages_processed then keep their initial False, 0
\* and 0, which is what the host's 500 yields as a result.
InvokeWrapped(r) ==
  /\ pc[r] = "admitted"
  /\ req[r].endpoint \in TrackUsage
  /\ \E answer \in HandlerResponses(req[r].endpoint) \cup {UnhandledException} :
       /\ result' = [result EXCEPT ![r] = answer]
       /\ hist' = [hist EXCEPT ![r].steps = Append(@, "handler")]
       /\ pc' = [pc EXCEPT ![r] = "metering"]
  /\ UNCHANGED <<now, limiterVars, storeVars, envVars, stageVars, req, user,
                 response, served>>

\* Mutant of RecordUsage: a failure of the metering store reaches the client.
RecordUsage_Raising(r) ==
  /\ pc[r] = "metering"
  /\ \E meter \in MeterOutcomes(cosmos_configured) :
       /\ hist' = [hist EXCEPT ![r].steps = Append(@, "record_usage"),
                               ![r].meter = meter]
       /\ usage_container' =
            IF meter = "written"
              THEN [usage_container EXCEPT ![r] =
                      Append(@, UsageRecord(user[r].id, req[r].endpoint, now,
                                            TokensUsed(result[r]),
                                            PagesProcessed(result[r]),
                                            Success(result[r])))]
              ELSE usage_container
       /\ Answer(r, IF meter = "write_failed" THEN UnhandledException ELSE result[r])
  /\ UNCHANGED <<now, limiterVars, api_users, envVars, stageVars, req, user, result, served>>

\* track_usage after the handler has returned: the metrics are read from the
\* result, the finally block awaits record_usage, and the result is returned.
RecordUsage(r) ==
  /\ pc[r] = "metering"
  /\ \E meter \in MeterOutcomes(cosmos_configured) :
       /\ hist' = [hist EXCEPT ![r].steps = Append(@, "record_usage"),
                               ![r].meter = meter]
       /\ usage_container' =
            IF meter = "written"
              THEN [usage_container EXCEPT ![r] =
                      Append(@, UsageRecord(user[r].id, req[r].endpoint, now,
                                            TokensUsed(result[r]),
                                            PagesProcessed(result[r]),
                                            Success(result[r])))]
              ELSE usage_container
  /\ Answer(r, result[r])
  /\ UNCHANGED <<now, limiterVars, api_users, envVars, stageVars, req, user, result, served>>

\* The response has been sent; the next request takes the place of this one.
Complete(r) ==
  /\ pc[r] = "done"
  /\ pc' = [pc EXCEPT ![r] = "idle"]
  /\ req' = [req EXCEPT ![r] = NoRequest]
  /\ user' = [user EXCEPT ![r] = NoUser]
  /\ result' = [result EXCEPT ![r] = NoResponse]
  /\ response' = [response EXCEPT ![r] = NoResponse]
  /\ hist' = [hist EXCEPT ![r] = NoHistory]
  /\ usage_container' = [usage_container EXCEPT ![r] = <<>>]
  /\ input' = [input EXCEPT ![r] = NoInput]
  /\ bridge' = [bridge EXCEPT ![r] = NoBridge]
  /\ UNCHANGED <<now, limiterVars, api_users, envVars, blobs, jobs, events, served>>

(***************************************************************************)
(* The endpoint handlers that run a pipeline stage, step by step: each     *)
(* action is the code between two awaits.                                  *)
(***************************************************************************)
StageEndpoints == {"document_extract", "text_chunk", "generate_embeddings",
                   "pipeline_complete"}

\* The activity an endpoint hands to call_activity_direct.
ActivityOf(endpoint) ==
  CASE endpoint = "document_extract" -> "document_cracking"
    [] endpoint = "text_chunk" -> "chunking"
    [] endpoint = "generate_embeddings" -> "embedding"

\* What the handler answers when its activity has returned.
StageResponse(endpoint) ==
  CASE endpoint = "document_extract" -> Extracted
    [] endpoint = "text_chunk" -> Chunked
    [] endpoint = "generate_embeddings" -> Embedded

\* The sizes of the files clients upload, in bytes.
FileSizes == {5 * MiB, 5 * MiB + 1, 6 * MiB, 25 * MiB, 25 * MiB + 1}

Multipart(has_document, file_size) ==
  [NoInput EXCEPT !.content_type = "multipart/form-data",
                  !.has_document = has_document, !.file_size = file_size]
Json(document_url, has_text, texts) ==
  [NoInput EXCEPT !.content_type = "application/json", !.json = TRUE,
                  !.document_url = document_url, !.has_text = has_text,
                  !.texts = texts]
\* A body req.get_json() cannot parse.
BadJson == [NoInput EXCEPT !.content_type = "application/json"]

\* What clients send to each endpoint.
Payloads(endpoint) ==
  CASE endpoint \in {"document_extract", "pipeline_complete"} ->
         {Multipart(FALSE, 0), BadJson, Json(FALSE, FALSE, -1), Json(TRUE, FALSE, -1)}
         \cup {Multipart(TRUE, size) : size \in FileSizes}
    [] endpoint = "text_chunk" ->
         {BadJson, Json(FALSE, FALSE, -1), Json(FALSE, TRUE, -1)}
    [] endpoint = "generate_embeddings" ->
         {BadJson, Json(FALSE, FALSE, -1)}
         \cup {Json(FALSE, FALSE, n) : n \in {1, BatchLimit, BatchLimit + 1}}

\* An orchestration instance as client.start_new leaves it.
NewJob(name, activity, payload, prefix_list) ==
  [name |-> name, activity |-> activity, status |-> "Pending",
   file_size |-> IF payload.has_document THEN payload.file_size ELSE -1,
   texts |-> payload.texts, prefix_list |-> prefix_list]

\* status.output of an instance.
JobOutput(job) ==
  CASE job.status = "Completed" -> "output"
    [] job.status = "Failed" -> StageError
    [] OTHER -> ""

\* status.runtime_status of "await client.get_status(instance_id)": the
\* instance's status at the time of the call.
RuntimeStatus(id) == jobs[id].status

\* A poll has read `status` for instance `id`; the latest reading is kept,
\* with the status the poll before it had read ("" if there was none).
Observe(id, status) ==
  LET earlier == {reading \in seen : reading.id = id}
  IN (seen \ earlier) \cup
       {[id |-> id, status |-> status,
         before |-> IF earlier = {} THEN ""
                    ELSE (CHOOSE reading \in earlier : TRUE).status]}

\* "return func.HttpResponse(...)" of a handler inside track_usage.
HandlerReturn(r, answer) ==
  /\ result' = [result EXCEPT ![r] = answer]
  /\ pc' = [pc EXCEPT ![r] = "metering"]

\* The handler goes on to its next await.
HandlerAwait(r, at) ==
  /\ pc' = [pc EXCEPT ![r] = at]
  /\ UNCHANGED result

\* api_document_extract up to its first await.
ApiDocumentExtract(r) ==
  LET payload == input[r]
      plan == UserPlan(user[r])
  IN IF payload.content_type = "multipart/form-data"
       THEN IF ~payload.has_document
              THEN HandlerReturn(r, HttpResponse(400, ErrorBody("MISSING_DOCUMENT")))
            ELSE IF FileTooLarge(payload.file_size, plan)
              THEN HandlerReturn(r, FileTooLargeResponse(plan))
            ELSE HandlerAwait(r, "uploading")
     ELSE IF ~payload.json
       THEN HandlerReturn(r, HttpResponse(400, ErrorBody("INVALID_JSON")))
     ELSE IF ~payload.document_url
       THEN HandlerReturn(r, HttpResponse(400, ErrorBody("MISSING_URL")))
     ELSE HandlerAwait(r, "starting")

\* api_text_chunk up to its first await.
ApiTextChunk(r) ==
  LET payload == input[r]
  IN IF ~payload.json
       THEN HandlerReturn(r, FailureResponse(JsonError))
     ELSE IF ~payload.has_text
       THEN HandlerReturn(r, HttpResponse(400, ErrorBody("MISSING_TEXT")))
     ELSE HandlerAwait(r, "starting")

\* api_generate_embeddings up to its first await.
ApiGenerateEmbeddings(r) ==
  LET payload == input[r]
  IN IF ~payload.json
       THEN HandlerReturn(r, FailureResponse(JsonError))
     ELSE IF payload.texts < 0
       THEN HandlerReturn(r, HttpResponse(400, ErrorBody("MISSING_TEXTS")))
     ELSE IF BatchTooLarge(payload.texts)
       THEN HandlerReturn(r, HttpResponse(400, ErrorBody("BATCH_TOO_LARGE")))
     ELSE HandlerAwait(r, "starting")

\* api_pipeline_complete up to its first await.
ApiPipelineComplete(r) ==
  LET payload == input[r]
  IN IF payload.content_type = "multipart/form-data"
       THEN IF ~payload.has_document
              THEN HandlerReturn(r, HttpResponse(400, ErrorBody("MISSING_DOCUMENT")))
              ELSE HandlerAwait(r, "uploading")
     ELSE IF ~payload.json
       THEN HandlerReturn(r, FailureResponse(JsonError))
     ELSE IF ~payload.document_url
       THEN HandlerReturn(r, HttpResponse(400, ErrorBody("MISSING_URL")))
     ELSE HandlerAwait(r, "starting")

\* "return await f(req, *args, **kwargs)" for a stage endpoint: the handler is
\* entered and runs to its first await or to an early return.
EnterHandler(r) ==
  /\ pc[r] = "admitted"
  /\ req[r].endpoint \in StageEndpoints
  /\ hist' = [hist EXCEPT ![r].steps = Append(@, "handler")]
  /\ CASE req[r].endpoint = "document_extract" -> ApiDocumentExtract(r)
       [] req[r].endpoint = "text_chunk" -> ApiTextChunk(r)
       [] req[r].endpoint = "generate_embeddings" -> ApiGenerateEmbeddings(r)
       [] req[r].endpoint = "pipeline_complete" -> ApiPipelineComplete(r)
  /\ UNCHANGED <<now, limiterVars, storeVars, envVars, stageVars, req, user,
                 response, served>>

\* "blob_url = await upload_temp_document(file_data, filename)": the blob is
\* written to api-temp, or the upload raises and the handler answers 500.
UploadTempDocument(r) ==
  /\ pc[r] = "uploading"
  /\ hist' = [hist EXCEPT ![r].steps = Append(@, "upload_temp_document")]
  /\ \/ /\ blobs' = blobs \cup {[request |-> served, owner |-> user[r].id,
                                 size |-> input[r].file_size]}
        /\ HandlerAwait(r, "starting")
     \/ /\ HandlerReturn(r, FailureResponse(UploadError))
        /\ UNCHANGED blobs
  /\ UNCHANGED <<now, limiterVars, storeVars, envVars, input, jobs, bridge, events,
                 req, user, response, served>>

\* "instance_id = await client.start_new(...)": of call_activity_direct, with
\* start_time taken on its return, or of api_pipeline_complete, which answers
\* 202 at once.
StartNew(r) ==
  /\ pc[r] = "starting"
  /\ hist' = [hist EXCEPT ![r].steps = Append(@, "start_new")]
  /\ IF req[r].endpoint = "pipeline_complete"
       THEN /\ jobs' = Append(jobs, NewJob("index_document", "", input[r], <<>>))
            /\ HandlerReturn(r, Processing)
            /\ UNCHANGED bridge
       ELSE /\ jobs' = Append(jobs, NewJob("single_activity_orchestrator",
                                           ActivityOf(req[r].endpoint), input[r], <<>>))
            /\ bridge' = [bridge EXCEPT ![r] =
                            [NoBridge EXCEPT !.instance_id = Len(jobs) + 1,
                                             !.start_time = now]]
            /\ HandlerAwait(r, "polling")
  /\ UNCHANGED <<now, limiterVars, storeVars, envVars, input, blobs, events,
                 req, user, response, served>>

\* Mutant of Raise: giving up on the job also terminates it.
Raise_Terminating(r, status, message) ==
  /\ bridge' = [bridge EXCEPT ![r].status = status, ![r].raised = message]
  /\ jobs' = [jobs EXCEPT ![bridge[r].instance_id].status =
                IF @ \in {"Completed", "Failed"} THEN @ ELSE "Terminated"]
  /\ HandlerReturn(r, FailureResponse(message))

\* call_activity_direct raises after having last seen `status`; the handler's
\* "except Exception" answers 500 with the message as details.  Nothing is
\* done to the instance.
Raise(r, status, message) ==
  /\ bridge' = [bridge EXCEPT ![r].status = status, ![r].raised = message]
  /\ jobs' = jobs
  /\ HandlerReturn(r, FailureResponse(message))

\* "while time.time() - start_time < timeout_seconds:" and, past the loop,
\* "raise Exception('Activity timeout')".
TestTimeout(r) ==
  /\ pc[r] = "polling"
  /\ IF now - bridge[r].start_time < timeout_seconds
       THEN /\ HandlerAwait(r, "status")
            /\ hist' = [hist EXCEPT ![r].steps = Append(@, "get_status")]
            /\ UNCHANGED <<bridge, jobs>>
       ELSE /\ Raise(r, bridge[r].status, ActivityTimeout)
            /\ UNCHANGED hist
  /\ UNCHANGED <<now, limiterVars, storeVars, envVars, input, blobs, events,
                 req, user, response, served>>

\* "status = await client.get_status(instance_id)" returns, and the rest of
\* the loop body: Completed returns the output, Failed raises with it, any
\* other status reaches "await asyncio.sleep(2)", which raises NameError.
GetStatus(r) ==
  /\ pc[r] = "status"
  /\ LET job == jobs[bridge[r].instance_id]
     IN IF job.status = "Completed"
          THEN /\ bridge' = [bridge EXCEPT ![r].status = job.status]
               /\ HandlerReturn(r, StageResponse(req[r].endpoint))
               /\ UNCHANGED jobs
        ELSE IF job.status = "Failed"
          THEN Raise(r, job.status, ActivityFailed(JobOutput(job)))
        ELSE Raise(r, job.status, AsyncioNameError)
  /\ seen' = Observe(bridge[r].instance_id, RuntimeStatus(bridge[r].instance_id))
  /\ UNCHANGED <<now, limiterVars, storeVars, cosmos_configured, start, partials,
                 environ, input, blobs, events, req, user, response, hist, served>>

\* time.time() moves on while a request awaits the status of its instance.
Elapse ==
  /\ \E r \in Requests :
       /\ pc[r] = "status"
       /\ now - bridge[r].start_time < timeout_seconds
  /\ now' = now + timeout_seconds
  /\ UNCHANGED <<limiterVars, storeVars, envVars, stageVars, requestVars, served>>

\* Mutant of JobStep: an instance that has failed is started over.
JobStep_Restart(id) ==
  /\ jobs[id].status \in {"Pending", "Running", "Failed"}
  /\ \E status \in (IF jobs[id].status = "Pending" THEN {"Running"}
                    ELSE IF jobs[id].status = "Failed" THEN {"Pending"}
                    ELSE {"Completed", "Failed"}) :
       jobs' = [jobs EXCEPT ![id].status = status]
  /\ UNCHANGED <<now, limiterVars, storeVars, envVars, requestVars, served,
                 input, blobs, bridge, events>>

\* single_activity_orchestrator (or another orchestrator) makes progress: the
\* instance starts running, and its activity returns or raises.
JobStep(id) ==
  /\ jobs[id].status \in {"Pending", "Running"}
  /\ \E status \in (IF jobs[id].status = "Pending" THEN {"Running"}
                    ELSE {"Completed", "Failed"}) :
       jobs' = [jobs EXCEPT ![id].status = status]
  /\ UNCHANGED <<now, limiterVars, storeVars, envVars, requestVars, served,
                 input, blobs, bridge, events>>

(***************************************************************************)
(* index_event_grid                                                        *)
(***************************************************************************)
\* The text "/blobs/" within a subject; a subject is the sequence of the
\* texts between and including its occurrences.
BlobsMarker == "/blobs/"

\* The subjects of the events delivered.
Subjects == {<<"/containers/source", BlobsMarker, "a.pdf">>,
             <<"/containers/source", BlobsMarker, "dir", BlobsMarker, "b.pdf">>,
             <<"/containers/source", BlobsMarker>>}

\* The events delivered: event.get_json() with its 'api', and event.subject.
Events == {[data |-> [api |-> api], subject |-> subject] :
             api \in {"PutBlob", "DeleteBlob", "CopyBlob"}, subject \in Subjects}

\* Where sep first occurs in seq, 0 if nowhere.
Find(seq, sep) ==
  IF \E i \in DOMAIN seq : seq[i] = sep
    THEN CHOOSE i \in DOMAIN seq : seq[i] = sep /\ \A j \in 1..(i - 1) : seq[j] # sep
    ELSE 0

\* Where sep last occurs in seq, 0 if nowhere.
FindLast(seq, sep) ==
  IF \E i \in DOMAIN seq : seq[i] = sep
    THEN CHOOSE i \in DOMAIN seq : seq[i] = sep /\ \A j \in (i + 1)..Len(seq) : seq[j] # sep
    ELSE 0

\* Mutant of ExtractPath: the subject is split at the last "/blobs/".
ExtractPath_Last(event) ==
  LET subject == event.subject
      at == FindLast(subject, BlobsMarker)
  IN SubSeq(subject, at + 1, Len(subject))

\* extract_path: subject.split("/blobs/", 1)[-1]
ExtractPath(event) ==
  LET subject == event.subject
      at == Find(subject, BlobsMarker)
  IN SubSeq(subject, at + 1, Len(subject))

\* event.get_json()["api"] != "PutBlob" is false
IsPutBlob(event) == event.data.api = "PutBlob"

\* index_event_grid(event, client)
IndexEventGrid(event) ==
  /\ events' = Append(events, event)
  /\ jobs' = IF IsPutBlob(event)
               THEN Append(jobs, NewJob("index", "", NoInput, <<ExtractPath(event)>>))
               ELSE jobs
  /\ UNCHANGED <<now, limiterVars, storeVars, envVars, requestVars,
                 input, blobs, bridge>>

(***************************************************************************)
(* The query endpoints: api_search and api_job_status behind the gateway,  *)
(* status_id and api_health open.                                          *)
(***************************************************************************)
\* The settings api_health reads with os.getenv; environ holds those that are
\* set to a non-empty value.
Settings == {"SEARCH_SERVICE_ENDPOINT", "AZURE_OPENAI_ENDPOINT", "DI_ENDPOINT",
             "SOURCE_STORAGE_ACCOUNT_NAME"}

\* bool(os.getenv(name))
HasSetting(name) == name \in environ

\* f"api-{req.user['id']}"
TenantIndex(user_id) == "api-" \o user_id

\* The indexes of the search service: one per tenant.
Indexes == {TenantIndex(id) : id \in UserIds}

\* The documents a search of `index_name` yields.
IndexDocs(index_name) == {[id |-> "doc", index |-> index_name]}

\* The index_name query parameters clients send: none, another tenant's
\* index, an index the service does not have.
IndexNames == {"", TenantIndex("u_gold"), "no-such-index"}

SearchConfigError == "Missing search service configuration."
SearchError == "index not found"

\* "index_name = req.params.get('index_name') or f"api-{req.user['id']}""
SearchIndexName(r) ==
  IF input[r].index_name # "" THEN input[r].index_name
  ELSE TenantIndex(user[r].id)

\* api_search(req): what the handler returns.
ApiSearch(r) ==
  IF ~input[r].q
    THEN HttpResponse(400, ErrorBody("MISSING_QUERY"))
  ELSE IF ~HasSetting("SEARCH_SERVICE_ENDPOINT")
    THEN FailureResponse(SearchConfigError)
  ELSE IF SearchIndexName(r) \notin Indexes
    THEN FailureResponse(SearchError)
  ELSE HttpResponse(200, [results |-> IndexDocs(SearchIndexName(r)),
                          query |-> "q",
                          index_name |-> SearchIndexName(r),
                          total_results |-> Cardinality(IndexDocs(SearchIndexName(r)))])

\* The instance ids clients ask about: those of the instances started, and
\* one more.
JobIds == 1..(MaxInvocations + 1)

\* What "await client.get_status(instance_id=...)" gives: the status of an
\* instance the task hub has; for an id it does not have, None, a status
\* object with no field set, or an exception.
GetStatusOutcomes(id) ==
  IF id \in DOMAIN jobs THEN {"status"} ELSE {"none", "blank", "raise"}

GetStatusError == "get_status failed"
AttributeError == "'NoneType' object has no attribute"

\* status.runtime_status.name.lower()
Lower(name) ==
  CASE name = "Pending" -> "pending"
    [] name = "Running" -> "running"
    [] name = "Completed" -> "completed"
    [] name = "Failed" -> "failed"
    [] name = "Terminated" -> "terminated"

\* response_data of api_job_status
JobStatusBody(id) ==
  LET name == RuntimeStatus(id)
      data == [job_id |-> id, status |-> Lower(name)]
  IN CASE name = "Completed" -> [job_id |-> id, status |-> Lower(name),
                                 result |-> "processed"]
       [] name = "Failed" -> [job_id |-> id, status |-> Lower(name),
                              error |-> JobOutput(jobs[id])]
       [] OTHER -> data

\* api_job_status(req, client): what the handler returns when get_status has
\* given `outcome`.
ApiJobStatus(id, outcome) ==
  CASE outcome = "none" -> HttpResponse(404, ErrorBody("JOB_NOT_FOUND"))
    [] outcome = "blank" -> FailureResponse(AttributeError)
    [] outcome = "raise" -> FailureResponse(GetStatusError)
    [] outcome = "status" -> HttpResponse(200, JobStatusBody(id))

\* The gateway calls the handler of a query endpoint.  api_search runs inside
\* track_usage; api_job_status does not, its response is the request's.
EnterQuery(r) ==
  /\ pc[r] = "admitted"
  /\ hist' = [hist EXCEPT ![r].steps = Append(@, "handler")]
  /\ IF req[r].endpoint = "search"
       THEN /\ HandlerReturn(r, ApiSearch(r))
            /\ UNCHANGED <<response, seen>>
       ELSE /\ req[r].endpoint = "job_status"
            /\ \E outcome \in GetStatusOutcomes(input[r].job_id) :
                 /\ Answer(r, ApiJobStatus(input[r].job_id, outcome))
                 /\ seen' = IF outcome = "status"
                              THEN Observe(input[r].job_id,
                                           Lower(RuntimeStatus(input[r].job_id)))
                              ELSE seen
            /\ UNCHANGED result
  /\ UNCHANGED <<now, limiterVars, storeVars, cosmos_configured, start, partials,
                 environ, stageVars, req, user, served>>

\* result.to_json() with historyEvents, of status_id
StatusJson(id) == [instanceId |-> id, runtimeStatus |-> RuntimeStatus(id),
                   historyEvents |-> "null"]

\* status_id(req, client): what the client gets when get_status has given
\* `outcome`.  Nothing is caught: None.to_json() and an exception of
\* get_status reach the host, which answers 500.
StatusIdResponse(id, outcome) ==
  CASE outcome = "none" -> UnhandledException
    [] outcome = "raise" -> UnhandledException
    [] outcome = "blank" -> HttpResponse(200, [historyEvents |-> "null"])
    [] outcome = "status" -> HttpResponse(200, StatusJson(id))

\* A request to an endpoint that has no decorator of the gateway is handled.
Handle(r, endpoint, payload, answer) ==
  /\ pc[r] = "idle"
  /\ served < MaxRequests
  /\ served' = served + 1
  /\ req' = [req EXCEPT ![r] = [endpoint |-> endpoint, api_key |-> ""]]
  /\ input' = [input EXCEPT ![r] = payload]
  /\ hist' = [hist EXCEPT ![r].steps = Append(@, "handler")]
  /\ Answer(r, answer)
  /\ UNCHANGED <<now, limiterVars, storeVars, cosmos_configured, start, partials,
                 environ, blobs, jobs, bridge, events, user, result>>

\* GET /status/{id}
StatusId(r) ==
  \E id \in JobIds :
    \E outcome \in GetStatusOutcomes(id) :
      /\ Handle(r, "status_id", [NoInput EXCEPT !.job_id = id],
                StatusIdResponse(id, outcome))
      /\ seen' = IF outcome = "status" THEN Observe(id, RuntimeStatus(id))
                 ELSE seen

\* health_status["services"]
Services ==
  [search |-> HasSetting("SEARCH_SERVICE_ENDPOINT"),
   openai |-> HasSetting("AZURE_OPENAI_ENDPOINT"),
   document_intelligence |-> HasSetting("DI_ENDPOINT"),
   storage |-> HasSetting("SOURCE_STORAGE_ACCOUNT_NAME")]

\* Mutant of AllServices: the storage account is not looked at.
AllServices_NoStorage(services) ==
  \A name \in DOMAIN services \ {"storage"} : services[name]

\* all(health_status["services"].values())
AllServices(services) == \A name \in DOMAIN services : services[name]

\* api_health(req): what the handler returns.
HealthResponse ==
  LET status == IF AllServices(Services) THEN "healthy" ELSE "degraded"
  IN HttpResponse(IF status = "healthy" THEN 200 ELSE 503,
                  [status |-> status, timestamp |-> now, services |-> Services])

\* GET /api/v1/health
ApiHealth(r) ==
  /\ Handle(r, "health", NoInput, HealthResponse)
  /\ UNCHANGED seen

(***************************************************************************)
(* The gateway: up to MaxRequests requests, one at a time, for any         *)
(* endpoint, with any credential, with or without a configured store.      *)
(***************************************************************************)
Init ==
  /\ InitCommon
  /\ environ = Settings
  /\ cosmos_configured \in BOOLEAN

Next ==
  \/ Arrive(1)
  \/ Authenticate(1)
  \/ RateLimit(1)
  \/ InvokeHandler(1)
  \/ RecordUsage(1)
  \/ Complete(1)

Spec == Init /\ [][Next]_vars

(***************************************************************************)
(* The gateway under load: the free tenant keeps two requests in flight    *)
(* within one second, with the store configured.                           *)
(***************************************************************************)
InitLoad ==
  /\ InitCommon
  /\ environ = Settings
  /\ cosmos_configured = TRUE

NextLoad ==
  \E r \in Requests :
    \/ ArriveLoad(r)
    \/ Authenticate(r)
    \/ RateLimit(r)
    \/ InvokeHandler(r)
    \/ RecordUsage(r)
    \/ Complete(r)

SpecLoad == InitLoad /\ [][NextLoad]_vars

(***************************************************************************)
(* The limiter under load: one tenant calling check_rate_limits over more  *)
(* than an hour.  The clock visits the instants start + d, d in Instants;  *)
(* at each instant the client sends requests back to back until it is      *)
(* refused, except that MaxPartial times it may stop earlier.              *)
(***************************************************************************)
Instants == {0, 59, 3599, 3600} \cup {60 * k : k \in 1..10}
LoadUsers == {StoreItems["u_free"]}

InitLimiter ==
  /\ InitCommon
  /\ environ = Settings
  /\ cosmos_configured = TRUE

Refused == rl_last.time = now /\ rl_last.response.status_code = 429

\* One call of check_rate_limits(user, req) at the current time.
LimiterCall(caller) ==
  /\ ~Refused
  /\ LET outcome == CheckRateLimits(caller, now, rate_limit_storage)
     IN /\ rate_limit_storage' = outcome.storage
        /\ rl_last' = CallRecord(caller, now, admitted, outcome)
        /\ admitted' = IF Admitted(outcome)
                         THEN [admitted EXCEPT ![caller.id] = Append(@, now)]
                         ELSE admitted
  /\ UNCHANGED <<now, storeVars, envVars, stageVars, requestVars, served>>

\* time.time() advances to the next instant of the load pattern.
Tick ==
  /\ \E d \in Instants : d > now - start
  /\ now' = start + CHOOSE d \in Instants :
               /\ d > now - start
               /\ \A e \in Instants : e > now - start => d <= e
  /\ \/ Refused /\ UNCHANGED partials
     \/ ~Refused /\ partials < MaxPartial /\ partials' = partials + 1
  /\ UNCHANGED <<limiterVars, storeVars, requestVars, stageVars, cosmos_configured,
                 start, environ, seen, served>>

NextLimiter == (\E caller \in LoadUsers : LimiterCall(caller)) \/ Tick

SpecLimiter == InitLimiter /\ [][NextLimiter]_vars

(***************************************************************************)
(* The stage endpoints and the event trigger: up to MaxInvocations         *)
(* invocations, one at a time, each an authenticated tenant's request to   *)
(* a stage endpoint or a storage event, while the instances they started   *)
(* make progress.                                                          *)
(***************************************************************************)
\* The credentials of the tenants that call the stage endpoints.
StageKeys == {"key_free", "key_gold", "key_bare", "dev_1"}

\* A request to a stage endpoint arrives.
ArriveStage(r) ==
  /\ served < MaxInvocations
  /\ served' = served + 1
  /\ \E endpoint \in StageEndpoints, api_key \in StageKeys :
       \E payload \in Payloads(endpoint) : Receive(r, endpoint, api_key, payload)

\* A storage event is delivered to index_event_grid.
Deliver ==
  /\ served < MaxInvocations
  /\ served' = served + 1
  /\ \E event \in Events : IndexEventGrid(event)

InitStages ==
  /\ InitCommon
  /\ environ = Settings
  /\ cosmos_configured \in BOOLEAN

NextStages ==
  \/ ArriveStage(1)
  \/ Authenticate(1)
  \/ RateLimit(1)
  \/ EnterHandler(1)
  \/ UploadTempDocument(1)
  \/ StartNew(1)
  \/ TestTimeout(1)
  \/ GetStatus(1)
  \/ Elapse
  \/ \E id \in DOMAIN jobs : JobStep(id)
  \/ RecordUsage(1)
  \/ Complete(1)
  \/ Deliver

SpecStages == InitStages /\ [][NextStages]_vars

(***************************************************************************)
(* Tenants whose plan the tables do not know: the tenants with plan "gold" *)
(* and with no plan call check_rate_limits back to back within one second, *)
(* and upload to document/extract.                                         *)
(***************************************************************************)
PlanUsers == {StoreItems["u_gold"], StoreItems["u_bare"]}

\* One of them uploads a file to document/extract.
ArrivePlans(r) ==
  /\ served < MaxInvocations
  /\ served' = served + 1
  /\ \E api_key \in {caller.api_key : caller \in PlanUsers}, size \in FileSizes :
       Receive(r, "document_extract", api_key, Multipart(TRUE, size))

InitPlans ==
  /\ InitCommon
  /\ environ = Settings
  /\ cosmos_configured = TRUE

NextPlans ==
  \/ \E caller \in PlanUsers : LimiterCall(caller)
  \/ ArrivePlans(1)
  \/ Authenticate(1)
  \/ RateLimit(1)
  \/ EnterHandler(1)
  \/ UploadTempDocument(1)
  \/ StartNew(1)
  \/ TestTimeout(1)
  \/ GetStatus(1)
  \/ RecordUsage(1)
  \/ Complete(1)

SpecPlans == InitPlans /\ [][NextPlans]_vars

(***************************************************************************)
(* The query endpoints: up to MaxRequests requests, one at a time, to      *)
(* search, job status and /status/{id}, with and without the search        *)
(* service configured, while up to MaxInvocations indexing instances,      *)
(* started by uploads to the source container, make progress.              *)
(***************************************************************************)
\* The credential of the tenant that calls the gated query endpoints.
QueryKeys == {"key_free"}

\* What clients send to the gated query endpoints.
QueryPayloads(endpoint) ==
  CASE endpoint = "search" ->
         {[NoInput EXCEPT !.q = q, !.index_name = index_name] :
            q \in BOOLEAN, index_name \in IndexNames}
    [] endpoint = "job_status" ->
         {[NoInput EXCEPT !.job_id = id] : id \in JobIds}

\* A request to api_search or api_job_status arrives.
ArriveQuery(r) ==
  /\ served < MaxRequests
  /\ served' = served + 1
  /\ \E endpoint \in {"search", "job_status"}, api_key \in QueryKeys :
       \E payload \in QueryPayloads(endpoint) : Receive(r, endpoint, api_key, payload)

\* A blob is written to the source container and its event is delivered.
BlobCreated ==
  /\ Len(jobs) < MaxInvocations
  /\ IndexEventGrid([data |-> [api |-> "PutBlob"],
                     subject |-> <<"/containers/source", BlobsMarker, "a.pdf">>])
  /\ UNCHANGED served

InitQueries ==
  /\ InitCommon
  /\ environ \in {Settings, Settings \ {"SEARCH_SERVICE_ENDPOINT"}}
  /\ cosmos_configured = TRUE

NextQueries ==
  \/ ArriveQuery(1)
  \/ Authenticate(1)
  \/ RateLimit(1)
  \/ EnterQuery(1)
  \/ RecordUsage(1)
  \/ Complete(1)
  \/ StatusId(1)
  \/ BlobCreated
  \/ \E id \in DOMAIN jobs : JobStep(id)

SpecQueries == InitQueries /\ [][NextQueries]_vars

(***************************************************************************)
(* The health endpoint: up to MaxRequests requests, two at a time, under   *)
(* any combination of settings, with or without a configured store.        *)
(***************************************************************************)
InitHealth ==
  /\ InitCommon
  /\ environ \in SUBSET Settings
  /\ cosmos_configured \in BOOLEAN

NextHealth == \E r \in Requests : ApiHealth(r) \/ Complete(r)

SpecHealth == InitHealth /\ [][NextHealth]_vars

(***************************************************************************)
(* track_usage around any handler: up to MaxRequests requests, one at a    *)
(* time, to the endpoints decorated with it, where the handler returns any *)
(* of its responses or raises, with or without a configured store.         *)
(***************************************************************************)
\* The credentials presented to the metered endpoints.
MeterKeys == {"key_free", "dev_1", "key_none"}

\* A request to an endpoint decorated with @track_usage arrives.
ArriveMeter(r) ==
  /\ served < MaxRequests
  /\ served' = served + 1
  /\ \E endpoint \in TrackUsage, api_key \in MeterKeys :
       Receive(r, endpoint, api_key, NoInput)

InitMeter ==
  /\ InitCommon
  /\ environ = Settings
  /\ cosmos_configured \in BOOLEAN

NextMeter ==
  \/ ArriveMeter(1)
  \/ Authenticate(1)
  \/ RateLimit(1)
  \/ InvokeWrapped(1)
  \/ RecordUsage(1)
  \/ Complete(1)

SpecMeter == InitMeter /\ [][NextMeter]_vars

(***************************************************************************)
(* Claims about the rate limiter.                                          *)
(***************************************************************************)
\* The user record behind a user id.
UserRecord(user_id) == IF user_id = DevUser.id THEN DevUser ELSE StoreItems[user_id]
LimitsOf(user_id) == PlanLimits(UserPlan(UserRecord(user_id)))

\* No limit + 1 consecutive admissions of the log lie within one window.  The
\* log is in time order, so the admissions of any rolling window are
\* consecutive entries of it.
WindowRespected(log, limit, window) ==
  \A j \in (limit + 1)..Len(log) : log[j] - log[j - limit] >= window

\* C1: for every tenant, the requests admitted by check_rate_limits in any
\* rolling 60-second window never exceed the plan's requests-per-minute limit.
C1_PerMinuteLimit ==
  \A u \in UserIds :
    WindowRespected(admitted[u], LimitsOf(u).requests_per_minute, MinuteWindow)

\* C1 witness: the free tenant was refused for the minute window after more
\* admissions than one minute allows, so that a window has rolled.
C1_Witness ==
  /\ rl_last.user_id = "u_free"
  /\ rl_last.response.status_code = 429
  /\ rl_last.response.body.window = "minute"
  /\ Len(admitted["u_free"]) > limits["free"].requests_per_minute

\* C2: for every tenant, the requests admitted in any rolling 3600-second
\* window never exceed the plan's requests-per-hour limit, wherever the window
\* lies with respect to the calendar hour.
C2_HourlyLimit ==
  \A u \in UserIds :
    WindowRespected(admitted[u], LimitsOf(u).requests_per_hour, HourWindow)

\* C2 witness: the free tenant has had more admissions than one hour allows,
\* the latest after a calendar-hour boundary that is no multiple of its start.
C2_Witness ==
  /\ Len(admitted["u_free"]) > limits["free"].requests_per_hour
  /\ start % HourWindow # 0

\* C4: a call made when the caller has had at least L = requests-per-minute
\* admissions in the last 60 s, and fewer than the hourly limit in the last
\* hour, is refused with 429 RATE_LIMIT_EXCEEDED, limit L, window "minute",
\* retry_after 60; a call made with fewer than L (and the hour not full) is
\* admitted, so the first L calls of a minute are.
C4_MinuteRefusal ==
  rl_last # NoCall =>
    LET plan_limits == LimitsOf(rl_last.user_id)
        L == plan_limits.requests_per_minute
    IN rl_last.hourly_before < plan_limits.requests_per_hour =>
         /\ rl_last.minute_before >= L =>
              /\ rl_last.response.status_code = 429
              /\ rl_last.response.body.code = "RATE_LIMIT_EXCEEDED"
              /\ rl_last.response.body.limit = L
              /\ rl_last.response.body.window = "minute"
              /\ rl_last.response.body.retry_after = 60
         /\ rl_last.minute_before < L => rl_last.response = NoResponse

\* C4 witness: the 11th request of a free tenant within one minute, the ten
\* before it admitted, is refused with limit 10, window "minute".
C4_Witness ==
  /\ rl_last.user_id = "u_free"
  /\ Len(admitted["u_free"]) = 10
  /\ rl_last.minute_before = 10
  /\ rl_last.response.status_code = 429
  /\ rl_last.response.body.limit = 10
  /\ rl_last.response.body.window = "minute"

\* C5: the hourly limit is evaluated first: a call made with the hourly limit
\* reached is refused with window "hour" and retry_after = 3600 - (now mod
\* 3600), also when the per-minute limit is reached too; a refusal with
\* window "minute" is given only when the hourly limit is not reached.
C5_HourlyFirst ==
  rl_last # NoCall =>
    LET plan_limits == LimitsOf(rl_last.user_id)
    IN /\ rl_last.hourly_before >= plan_limits.requests_per_hour =>
            /\ rl_last.response.status_code = 429
            /\ rl_last.response.body.window = "hour"
            /\ rl_last.response.body.limit = plan_limits.requests_per_hour
            /\ rl_last.response.body.retry_after = 3600 - (rl_last.time % 3600)
       /\ (rl_last.response.status_code = 429
             /\ rl_last.response.body.window = "minute") =>
            rl_last.hourly_before < plan_limits.requests_per_hour

\* C5 witness: a call refused for the hour while the minute is full as well.
C5_Witness ==
  /\ rl_last.response.status_code = 429
  /\ rl_last.response.body.window = "hour"
  /\ rl_last.minute_before >= LimitsOf(rl_last.user_id).requests_per_minute
  /\ rl_last.hourly_before >= LimitsOf(rl_last.user_id).requests_per_hour

\* C3: under any interleaving of concurrent requests of one tenant, each
\* rate-limit check acts as one atomic check-then-append on the tenant's
\* window as it is at that moment: the request is admitted exactly when the
\* window then holds fewer entries than both limits, an admission adds exactly
\* one timestamp to it and loses none, and so the admissions never exceed the
\* per-minute or the hourly limit.
C3_AtomicAdmission ==
  [][\A r \in Requests :
       (pc[r] = "authenticated" /\ pc'[r] # "authenticated") =>
         LET u == user[r].id
             window == rate_limit_storage[u]
             hour_count == CountWithin(window, now, HourWindow)
             minute_count == CountWithin(window, now, MinuteWindow)
         IN /\ pc'[r] = "admitted" <=>
                 /\ hour_count < LimitsOf(u).requests_per_hour
                 /\ minute_count < LimitsOf(u).requests_per_minute
            /\ pc'[r] = "admitted" =>
                 /\ CountWithin(rate_limit_storage'[u], now, HourWindow) = hour_count + 1
                 /\ CountWithin(rate_limit_storage'[u], now, MinuteWindow) = minute_count + 1
            /\ pc'[r] # "admitted" =>
                 /\ pc'[r] = "done"
                 /\ response'[r].status_code = 429
                 /\ CountWithin(rate_limit_storage'[u], now, HourWindow) = hour_count
            /\ WindowRespected(admitted'[u], LimitsOf(u).requests_per_minute, MinuteWindow)
            /\ WindowRespected(admitted'[u], LimitsOf(u).requests_per_hour, HourWindow)
    ]_vars

\* C3 witness: two requests of the free tenant were waiting for their
\* rate-limit checks together with one place left in the minute; one has the
\* place, the other was refused.
C3_Witness ==
  \E r, q \in Requests :
    /\ r # q
    /\ user[r].id = "u_free" /\ user[q].id = "u_free"
    /\ pc[r] = "admitted" /\ hist[r].raced
    /\ pc[q] = "done" /\ response[q].status_code = 429
    /\ Len(rate_limit_storage["u_free"]) = limits["free"].requests_per_minute

(***************************************************************************)
(* Claims about authentication and the order of the gateway's steps.       *)
(***************************************************************************)
AfterAuthentication == {"check_rate_limits", "handler", "record_usage"}

\* The request's credential is missing, or validate_api_key was called for it
\* and returned no user.
Unauthenticated(r) ==
  /\ pc[r] \notin {"idle", "received"}
  /\ \/ req[r].api_key = ""
     \/ /\ "validate_api_key" \in Range(hist[r].steps)
        /\ user[r] = NoUser

\* C6: an unauthenticated request (no credential, or a credential that
\* validate_api_key resolves to no tenant) is answered 401 at once: no
\* rate-limit check is made for it and no timestamp added to any window, no
\* usage record is written, and the handler is never invoked.
C6_UnauthenticatedShortCircuit ==
  [][\A r \in Requests :
       Unauthenticated(r)' =>
         /\ pc'[r] = "done"
         /\ response'[r].status_code = 401
         /\ Range(hist'[r].steps) \cap AfterAuthentication = {}
         /\ usage_container'[r] = <<>>
         /\ result'[r] = NoResponse
         /\ ~Unauthenticated(r) =>
              /\ rate_limit_storage' = rate_limit_storage
              /\ usage_container' = usage_container
    ]_vars

\* C6 witness: a request whose key matches no active tenant of the configured
\* store has been answered 401.
C6_Witness ==
  \E r \in Requests :
    /\ Unauthenticated(r)
    /\ req[r].api_key = "key_off"
    /\ hist[r].conn = "ok"
    /\ response[r].status_code = 401

\* C7: a request refused with 429 is refused after its authentication has
\* succeeded and before any business logic: the refusal of check_rate_limits
\* is what the client is answered, and the handler is never invoked for it.
C7_QuotaShortCircuit ==
  [][\A r \in Requests :
       /\ (/\ Len(hist'[r].steps) = Len(hist[r].steps) + 1
           /\ hist'[r].steps[Len(hist'[r].steps)] = "check_rate_limits"
           /\ rl_last'.response # NoResponse) =>
            /\ pc'[r] = "done"
            /\ response'[r] = rl_last'.response
            /\ response'[r].status_code = 429
       /\ (pc'[r] = "done" /\ response'[r].status_code = 429) =>
            /\ user'[r] # NoUser
            /\ hist'[r].steps = <<"validate_api_key", "check_rate_limits">>
            /\ result'[r] = NoResponse
            /\ usage_container'[r] = <<>>
    ]_vars

\* C7 witness: an authenticated request of the free tenant has been answered
\* 429.
C7_Witness ==
  \E r \in Requests :
    /\ pc[r] = "done"
    /\ response[r].status_code = 429
    /\ user[r].id = "u_free"

\* C8: with a Principal Store configured (COSMOS_ENDPOINT and COSMOS_KEY
\* set), validate_api_key never returns the synthesized dev_user, also when
\* connecting to the store fails.
C8_NoBypassWhenConfigured ==
  \A r \in Requests : cosmos_configured => user[r].id # DevUser.id

\* The active items of the store that carry the key.
ActiveMatches(api_key) ==
  {id \in StoreIds : StoreItems[id].api_key = api_key /\ StoreItems[id].active}

\* C9: when validate_api_key looks the credential up in the store (the store
\* is configured and its client was obtained): a credential of an active
\* tenant yields that tenant's record and sets its last-used time to the time
\* of the lookup; a credential with no match, or matching only an inactive
\* tenant, is answered 401 INVALID_API_KEY; so is any credential when the
\* store raises during the lookup.
C9_StoreAuthentication ==
  \A r \in Requests :
    hist[r].conn = "ok" =>
      IF hist[r].lookup = "ok" /\ ActiveMatches(req[r].api_key) # {}
        THEN /\ user[r].id \in ActiveMatches(req[r].api_key)
             /\ user[r].last_used = now
             /\ api_users[user[r].id] = user[r]
             /\ response[r].status_code # 401
        ELSE /\ user[r] = NoUser
             /\ pc[r] = "done"
             /\ response[r].status_code = 401
             /\ response[r].body.code = "INVALID_API_KEY"

\* C9 witness: the free tenant's key was looked up and the tenant's last-used
\* time is now the time of the lookup.
C9_Witness ==
  \E r \in Requests :
    /\ hist[r].conn = "ok" /\ hist[r].lookup = "ok"
    /\ req[r].api_key = "key_free"
    /\ user[r].id = "u_free"
    /\ api_users["u_free"].last_used = now
    /\ StoreItems["u_free"].last_used # now

(***************************************************************************)
(* Claims about usage metering.                                            *)
(***************************************************************************)
MeteringFailed == {"unconfigured", "connect_failed", "write_failed"}

\* C10: for every API-key-gated endpoint, a request that passed
\* authentication and rate limiting and has completed, with success or with
\* failure, has a usage record keyed by its tenant and its endpoint (granted
\* here: unless the metering store was not configured or failed).
C10_UsageRecorded ==
  \A r \in Requests :
    (/\ pc[r] = "done"
     /\ "handler" \in Range(hist[r].steps)
     /\ hist[r].meter \notin MeteringFailed) =>
      \E i \in DOMAIN usage_container[r] :
        /\ usage_container[r][i].user_id = user[r].id
        /\ usage_container[r][i].endpoint = req[r].endpoint

\* C11: a failure of the metering store while usage is recorded is swallowed:
\* once record_usage has been made for a request, the client is answered the
\* status and body the handler returned, whether the record was written, the
\* store could not be reached, or the write raised.
C11_MeteringFailureSwallowed ==
  \A r \in Requests :
    (pc[r] = "done" /\ "record_usage" \in Range(hist[r].steps)) =>
      /\ response[r] = result[r]
      /\ response[r] \in HandlerResponses(req[r].endpoint)

\* C11 witness: the write of the usage record raised and the client has the
\* handler's 200.
C11_Witness ==
  \E r \in Requests :
    /\ pc[r] = "done"
    /\ hist[r].meter = "write_failed"
    /\ usage_container[r] = <<>>
    /\ response[r].status_code = 200

\* C12: usage metering is asynchronous with respect to the response: while
\* the usage record of a request is still to be written (record_usage has not
\* returned), the client already has the handler's response, so a slow or
\* blocked metering store does not delay it.
C12_ResponseBeforeMetering ==
  \A r \in Requests : pc[r] = "metering" => response[r] = result[r]

(***************************************************************************)
(* Claims about the synchronous bridge call_activity_direct.               *)
(***************************************************************************)
Terminal == {"Completed", "Failed"}

\* call_activity_direct has ended for the request by raising.
BridgeRaised(r) == bridge[r].raised # ""

\* C13: the bridge reports a timeout as a failure distinct from a stage
\* failure: when it raises having seen the job Failed, the caller gets the
\* stage's error message; when it raises without having seen a terminal
\* status, the caller gets the Timeout outcome; and neither is reported as the
\* other.
C13_TimeoutDistinct ==
  \A r \in Requests :
    BridgeRaised(r) =>
      /\ result[r] = FailureResponse(bridge[r].raised)
      /\ bridge[r].status = "Failed" <=> bridge[r].raised = ActivityFailed(StageError)
      /\ bridge[r].status \notin Terminal <=> bridge[r].raised = ActivityTimeout

\* C14: the bridge waits a bounded time for its one-item job: it returns the
\* job's output only on seeing it Completed, and it does not stop waiting for
\* a job it has not seen Completed or Failed (one still pending or running at
\* the first poll) before 300 s have elapsed since it started waiting.
C14_BoundedPolling ==
  \A r \in Requests :
    (bridge[r].instance_id # 0 /\ pc[r] \in {"metering", "done"}) =>
      /\ result[r] = StageResponse(req[r].endpoint) <=> bridge[r].status = "Completed"
      /\ bridge[r].status \in Terminal \/ now - bridge[r].start_time >= timeout_seconds

\* C15: when the bridge gives up waiting (it raises without having seen a
\* terminal status), the step does nothing to the job: no instance is
\* terminated, cancelled or otherwise changed; the job may go on to Completed
\* or Failed, and the caller's answer stays what it was.
C15_GiveUpLeavesJob ==
  [][\A r \in Requests :
       /\ (~BridgeRaised(r) /\ BridgeRaised(r)' /\ bridge'[r].status \notin Terminal) =>
            jobs' = jobs
       /\ (BridgeRaised(r) /\ BridgeRaised(r)' /\ pc'[r] # "idle") =>
            /\ result'[r] = result[r]
            /\ result[r].status_code = 500
    ]_vars

\* C15 witness: the bridge gave up on a job it had not seen finished, the
\* caller was answered 500, and the job has since Completed.
C15_Witness ==
  \E r \in Requests :
    /\ BridgeRaised(r)
    /\ bridge[r].status \notin Terminal
    /\ jobs[bridge[r].instance_id].status = "Completed"
    /\ pc[r] = "done"
    /\ response[r].status_code = 500

(***************************************************************************)
(* Claims about the event trigger.                                         *)
(***************************************************************************)
\* path is the part of subject that follows its (first) "/blobs/".
FollowsBlobs(subject, path) ==
  \E i \in DOMAIN subject :
    /\ subject[i] = BlobsMarker
    /\ \A j \in 1..(i - 1) : subject[j] # BlobsMarker
    /\ Len(path) = Len(subject) - i
    /\ \A k \in DOMAIN path : path[k] = subject[i + k]

\* C16: the jobs started by storage events are, in order, one per event whose
\* payload has api = "PutBlob", each with exactly one prefix, the part of the
\* event's subject that follows "/blobs/"; an event of any other type starts
\* no job.
C16_EventTrigger ==
  LET put == SelectSeq(events, LAMBDA e : e.data.api = "PutBlob")
      started == SelectSeq(jobs, LAMBDA j : j.name = "index")
  IN /\ Len(started) = Len(put)
     /\ \A i \in DOMAIN started :
          /\ Len(started[i].prefix_list) = 1
          /\ FollowsBlobs(put[i].subject, started[i].prefix_list[1])

\* C16 witness: a PutBlob event whose blob path itself contains "/blobs/" has
\* started a job.
C16_Witness ==
  \E i \in DOMAIN jobs :
    /\ jobs[i].name = "index"
    /\ jobs[i].prefix_list = << <<"dir", BlobsMarker, "b.pdf">> >>
    /\ events[Len(events)].data.api = "PutBlob"

(***************************************************************************)
(* Claims about the limits the handlers enforce.                           *)
(***************************************************************************)
\* The request's handler has been entered and is past its checks.
Handled(r, endpoint) ==
  /\ req[r].endpoint = endpoint
  /\ "handler" \in Range(hist[r].steps)

\* C17: on embeddings/generate a texts array of more than 100 items is
\* answered 400 BATCH_TOO_LARGE with no job started for it and the embedding
\* stage not invoked; an array of at most 100, so one of exactly 100, is not
\* refused for its size and goes to the embedding stage with all its items.
C17_BatchLimit ==
  /\ \A i \in DOMAIN jobs : jobs[i].activity = "embedding" => jobs[i].texts <= 100
  /\ \A r \in Requests :
       (Handled(r, "generate_embeddings") /\ input[r].json /\ input[r].texts >= 0) =>
         IF input[r].texts > 100
           THEN /\ result[r] = HttpResponse(400, ErrorBody("BATCH_TOO_LARGE"))
                /\ "start_new" \notin Range(hist[r].steps)
                /\ bridge[r] = NoBridge
           ELSE /\ result[r].status_code # 400
                /\ pc[r] # "starting" =>
                     /\ "start_new" \in Range(hist[r].steps)
                     /\ jobs[bridge[r].instance_id].activity = "embedding"
                     /\ jobs[bridge[r].instance_id].texts = input[r].texts

\* C17 witness: a request with 101 texts has been answered 400 and no job
\* exists.
C17_Witness ==
  \E r \in Requests :
    /\ Handled(r, "generate_embeddings")
    /\ input[r].texts = 101
    /\ response[r].status_code = 400
    /\ response[r].body.code = "BATCH_TOO_LARGE"
    /\ jobs = <<>>

\* The upload limits of the plans, in MB.
PlanUploadMB == [free |-> 5, developer |-> 25, basic |-> 25,
                 professional |-> 100, enterprise |-> 500]

\* The request uploads a file as multipart/form-data.
Uploads(r) == input[r].content_type = "multipart/form-data" /\ input[r].has_document

\* C18: on document/extract an upload larger than the limit of the tenant's
\* plan (free 5 MB, developer and basic 25 MB, professional 100 MB,
\* enterprise 500 MB) is answered 413 FILE_TOO_LARGE with max_size
\* "<limit>MB"; an upload of at most the limit passes the check and is handed
\* to upload_temp_document.
C18_UploadLimit ==
  /\ \A plan \in DOMAIN PlanUploadMB :
       /\ SizeLimit(plan) = PlanUploadMB[plan] * 1024 * 1024
       /\ FileTooLargeResponse(plan).body.max_size = ToString(PlanUploadMB[plan]) \o "MB"
  /\ \A r \in Requests :
       (/\ Handled(r, "document_extract") /\ Uploads(r)
        /\ UserPlan(user[r]) \in DOMAIN PlanUploadMB) =>
         LET mb == PlanUploadMB[UserPlan(user[r])]
         IN IF input[r].file_size > mb * 1024 * 1024
              THEN /\ result[r].status_code = 413
                   /\ result[r].body.code = "FILE_TOO_LARGE"
                   /\ result[r].body.max_size = ToString(mb) \o "MB"
              ELSE /\ result[r].status_code # 413
                   /\ pc[r] = "uploading"
                        \/ "upload_temp_document" \in Range(hist[r].steps)

\* C18 witness: a free tenant's upload of 6 MB has been answered 413 with
\* max_size "5MB".
C18_Witness ==
  \E r \in Requests :
    /\ Handled(r, "document_extract")
    /\ UserPlan(user[r]) = "free"
    /\ input[r].file_size = 6 * 1024 * 1024
    /\ response[r].status_code = 413
    /\ response[r].body.max_size = "5MB"

\* C19: on every route that accepts an upload (document/extract and
\* pipeline/process), an upload larger than the limit of the tenant's plan is
\* refused before anything is written to blob storage and before any stage or
\* job is started for it.
C19_OversizeRefusedEverywhere ==
  \A r \in Requests :
    (/\ req[r].endpoint \in {"document_extract", "pipeline_complete"}
     /\ "handler" \in Range(hist[r].steps)
     /\ Uploads(r)
     /\ input[r].file_size > SizeLimit(UserPlan(user[r]))) =>
      /\ Range(hist[r].steps) \cap {"upload_temp_document", "start_new"} = {}
      /\ \A b \in blobs : b.request # served
      /\ \A i \in DOMAIN jobs : jobs[i].file_size # input[r].file_size
      /\ pc[r] \in {"metering", "done"} => result[r].status_code = 413

\* The plans the limit tables know.
KnownPlans == {"free", "developer", "basic", "professional", "enterprise"}

\* The tenants whose plan is missing or is none of the known ones.
UnknownPlanIds ==
  {u \in UserIds : "plan" \notin DOMAIN UserRecord(u) \/ UserRecord(u).plan \notin KnownPlans}

\* C20: a tenant whose plan is unknown or missing has the limits of the free
\* tier: check_rate_limits admits it while it has had fewer than 10
\* admissions in the minute and 100 in the hour and refuses it with these
\* limits otherwise; document/extract refuses its uploads above 5 MB with
\* max_size "5MB" and no others.
C20_UnknownPlanIsFree ==
  /\ \A u \in UnknownPlanIds :
       /\ LimitsOf(u).requests_per_minute = 10
       /\ LimitsOf(u).requests_per_hour = 100
       /\ SizeLimit(UserPlan(UserRecord(u))) = 5 * 1024 * 1024
  /\ rl_last.user_id \in UnknownPlanIds =>
       /\ (rl_last.minute_before < 10 /\ rl_last.hourly_before < 100)
            <=> rl_last.response = NoResponse
       /\ rl_last.response # NoResponse =>
            /\ rl_last.response.status_code = 429
            /\ rl_last.response.body.limit \in {10, 100}
  /\ \A u \in UnknownPlanIds :
       /\ WindowRespected(admitted[u], 10, MinuteWindow)
       /\ WindowRespected(admitted[u], 100, HourWindow)
  /\ \A r \in Requests :
       (Handled(r, "document_extract") /\ Uploads(r) /\ user[r].id \in UnknownPlanIds) =>
         IF input[r].file_size > 5 * 1024 * 1024
           THEN /\ result[r].status_code = 413
                /\ result[r].body.max_size = "5MB"
           ELSE result[r].status_code # 413

\* C20 witness: the tenant with no plan had a 6 MB upload refused with
\* max_size "5MB", and the tenant with plan "gold" was refused its 11th
\* request of the minute with limit 10.
C20_Witness ==
  /\ \E r \in Requests :
       /\ user[r].id = "u_bare"
       /\ input[r].file_size = 6 * 1024 * 1024
       /\ result[r].status_code = 413
       /\ result[r].body.max_size = "5MB"
  /\ rl_last.user_id = "u_gold"
  /\ rl_last.minute_before = 10
  /\ rl_last.response.status_code = 429
  /\ rl_last.response.body.limit = 10

(***************************************************************************)
(* Claims about the error contract and the query endpoints.                *)
(***************************************************************************)
\* C21: every response with a status of 400 or more that the handler of a
\* gated endpoint returns, the 500 of a failed stage call included, has a
\* `code` in its body.
C21_ErrorsCarryCode ==
  \A r \in Requests :
    (req[r].endpoint \in Endpoints /\ result[r].status_code >= 400) =>
      "code" \in DOMAIN result[r].body

\* C22: a search that succeeds has read the index of the tenant that sent it,
\* api-<tenant id>, and returns that index's documents, whatever the
\* request's parameters.
C22_SearchTenantScoped ==
  \A r \in Requests :
    (req[r].endpoint = "search" /\ result[r].status_code = 200) =>
      /\ result[r].body.index_name = TenantIndex(user[r].id)
      /\ result[r].body.results = IndexDocs(TenantIndex(user[r].id))

\* How far a status is along Pending -> Running -> Completed/Failed, whether
\* reported as runtimeStatus or in lower case.
Rank(status) ==
  CASE status \in {"Pending", "pending"} -> 0
    [] status \in {"Running", "running"} -> 1
    [] OTHER -> 2

\* The status without regard to case.
Canonical(status) ==
  IF status \in {"Pending", "Running", "Completed", "Failed", "Terminated"}
    THEN Lower(status) ELSE status

C23_TerminalPolledAgain ==
  \E reading \in seen :
    /\ Canonical(reading.before) = "failed"
    /\ Canonical(reading.status) = "failed"

\* C24: a status request for an id no instance has is answered 404, by
\* /status/{id} and by /api/v1/jobs/{job_id}; one for an id an instance has is
\* answered 200.
C24_UnknownJobNotFound ==
  \A r \in Requests :
    (pc[r] = "done" /\ req[r].endpoint \in {"job_status", "status_id"}
       /\ (req[r].endpoint = "job_status" => "handler" \in Range(hist[r].steps))) =>
      IF input[r].job_id \in DOMAIN jobs
        THEN response[r].status_code = 200
        ELSE response[r].status_code = 404

\* C25: api_health answers 200 with status "healthy" when all four settings
\* are present, and 503 with status "degraded" otherwise, whatever else the
\* state is.
C25_HealthIsConfigPresence ==
  \A r \in Requests :
    (pc[r] = "done" /\ req[r].endpoint = "health") =>
      IF Settings \subseteq environ
        THEN /\ response[r].status_code = 200
             /\ response[r].body.status = "healthy"
        ELSE /\ response[r].status_code = 503
             /\ response[r].body.status = "degraded"

\* C25 witness: one health request was answered "degraded" with only the
\* storage account name absent.
C25_Witness ==
  /\ environ = Settings \ {"SOURCE_STORAGE_ACCOUNT_NAME"}
  /\ \E r \in Requests :
       /\ pc[r] = "done"
       /\ req[r].endpoint = "health"
       /\ response[r].status_code = 503
       /\ response[r].body.services.search

\* C25 second case: a health request answered "healthy".
C25_Healthy ==
  \E r \in Requests :
    /\ pc[r] = "done"
    /\ req[r].endpoint = "health"
    /\ response[r].status_code = 200

(***************************************************************************)
(* Claims about the rate-limit window.                                     *)
(***************************************************************************)
\* The check_rate_limits call of request r is made in this step.
Checked(r) == pc[r] = "authenticated" /\ pc'[r] # "authenticated"

\* C26: a request that check_rate_limits refuses leaves the tenant's window
\* with the timestamps it had (less those an hour old); only a request that
\* is admitted adds one, its own time, at the end.
C26_RejectionAddsNothing ==
  [][\A r \in Requests : Checked(r) =>
       LET u == user[r].id
           kept == SelectSeq(rate_limit_storage[u], LAMBDA ts : now - ts < 3600)
       IN IF pc'[r] = "admitted"
            THEN rate_limit_storage'[u] = Append(kept, now)
            ELSE /\ response'[r].status_code = 429
                 /\ rate_limit_storage'[u] = kept]_vars

\* C26 witness: two requests of the free tenant have been refused one after
\* the other, and its window holds the 10 admissions of the minute.
C26_Witness ==
  /\ \A r \in Requests :
       /\ pc[r] = "done"
       /\ response[r].status_code = 429
       /\ user[r].id = "u_free"
  /\ Len(rate_limit_storage["u_free"]) = 10

\* C27: a call made when fewer than the hourly limit of the tenant's requests
\* were admitted in the 3600 s before it and fewer than the per-minute limit
\* in the 60 s before it is admitted; an admission exactly 60 s (3600 s) old
\* is not among those of the minute (hour).
C27_NoSpuriousRejection ==
  rl_last # NoCall =>
    LET u == rl_last.user_id
        earlier == IF rl_last.response = NoResponse
                     THEN SubSeq(admitted[u], 1, Len(admitted[u]) - 1)
                     ELSE admitted[u]
        in_hour == Cardinality({i \in DOMAIN earlier : rl_last.time - earlier[i] <= 3599})
        in_minute == Cardinality({i \in DOMAIN earlier : rl_last.time - earlier[i] <= 59})
    IN (in_hour < LimitsOf(u).requests_per_hour
         /\ in_minute < LimitsOf(u).requests_per_minute) =>
         rl_last.response = NoResponse

\* C27 witness: a call 60 s after the tenant's 10 admissions of one second is
\* admitted.
C27_Witness ==
  /\ rl_last.time = start + 60
  /\ rl_last.response = NoResponse
  /\ Cardinality({i \in DOMAIN admitted["u_free"] : admitted["u_free"][i] = start}) = 10
  /\ Cardinality({i \in DOMAIN admitted["u_free"] : admitted["u_free"][i] = start + 60}) = 1

\* C27, hour case: a call 3600 s after the first admissions of a full hour is
\* admitted.
C27_HourWitness ==
  /\ rl_last.time = start + 3600
  /\ rl_last.response = NoResponse
  /\ Len(admitted["u_free"]) = 101
  /\ admitted["u_free"][1] = start

\* C28: the call a tenant makes retry_after seconds after a refusal, having
\* made none in between, is admitted.
C28_RetryAfterSufficient ==
  [][(/\ rl_last.response.status_code = 429
      /\ rl_last' # rl_last
      /\ rl_last'.user_id = rl_last.user_id
      /\ rl_last'.time = rl_last.time + rl_last.response.body.retry_after)
       => rl_last'.response = NoResponse]_vars

\* C29: a call of check_rate_limits changes the window of its caller only,
\* and admits the caller exactly when the caller's own admissions of the hour
\* and of the minute are below the caller's limits.
C29_TenantIsolation ==
  [][/\ \A u \in UserIds :
          rate_limit_storage'[u] # rate_limit_storage[u] => rl_last'.user_id = u
     /\ rl_last' # NoCall =>
          (rl_last'.response = NoResponse <=>
             /\ rl_last'.hourly_before < LimitsOf(rl_last'.user_id).requests_per_hour
             /\ rl_last'.minute_before < LimitsOf(rl_last'.user_id).requests_per_minute)]_vars

\* C29 witness: the tenant with no plan is admitted while the window of the
\* tenant with plan "gold" is full.
C29_Witness ==
  /\ rl_last.user_id = "u_bare"
  /\ rl_last.response = NoResponse
  /\ rl_last.minute_before = 0
  /\ Len(rate_limit_storage["u_gold"]) = 10

\* seq is in non-decreasing order.
Sorted(seq) == \A i \in 1..(Len(seq) - 1) : seq[i] <= seq[i + 1]

\* C30: a tenant's window is in non-decreasing order, is no longer than the
\* tenant's hourly limit, and after a check of the tenant holds only
\* timestamps less than 3600 s before that check.
C30_WindowInvariant ==
  /\ \A u \in UserIds :
       /\ Sorted(rate_limit_storage[u])
       /\ Len(rate_limit_storage[u]) <= LimitsOf(u).requests_per_hour
  /\ rl_last # NoCall =>
       \A ts \in Range(rate_limit_storage[rl_last.user_id]) : rl_last.time - ts < 3600

\* C30 witness: a check 3600 s after the first admissions has dropped them,
\* and the window is full again.
C30_Witness ==
  /\ rl_last.time = start + 3600
  /\ start \in Range(admitted["u_free"])
  /\ start \notin Range(rate_limit_storage["u_free"])
  /\ Len(rate_limit_storage["u_free"]) = 100

(***************************************************************************)
(* Claims about track_usage.                                               *)
(***************************************************************************)
\* How many times `step` occurs in the calls made for request r.
Calls(r, step) == Cardinality({i \in DOMAIN hist[r].steps : hist[r].steps[i] = step})

\* The handler of request r returned a response with a status below 400.
ReturnedSuccess(r) == result[r] # UnhandledException /\ result[r].status_code < 400

\* The value of `field` in the body the handler of request r returned, 0 if
\* the body has none.
BodyMetric(r, field) ==
  IF field \in DOMAIN result[r].body THEN result[r].body[field] ELSE 0

\* C31: on an endpoint wrapped by track_usage, a request that was admitted
\* has no record_usage call before its handler has finished and exactly one
\* once the request is done, as the last call made for it, also when the
\* handler raised; the record written says success exactly when the handler
\* returned a status below 400, and carries the total_tokens and page_count
\* of the body in that case and 0 otherwise.
C31_ExactlyOneUsageCall ==
  \A r \in Requests :
    (req[r].endpoint \in TrackUsage /\ pc[r] \in {"admitted", "metering", "done"}
       /\ "check_rate_limits" \in Range(hist[r].steps)
       /\ (pc[r] = "done" => "handler" \in Range(hist[r].steps))) =>
      IF pc[r] = "done"
        THEN /\ Calls(r, "record_usage") = 1
             /\ Calls(r, "handler") = 1
             /\ hist[r].steps[Len(hist[r].steps)] = "record_usage"
             /\ Len(usage_container[r]) = IF hist[r].meter = "written" THEN 1 ELSE 0
             /\ \A i \in DOMAIN usage_container[r] :
                  LET record == usage_container[r][i]
                  IN /\ record.user_id = user[r].id
                     /\ record.endpoint = req[r].endpoint
                     /\ record.success = ReturnedSuccess(r)
                     /\ record.tokens_used =
                          IF ReturnedSuccess(r) THEN BodyMetric(r, "total_tokens") ELSE 0
                     /\ record.pages_processed =
                          IF ReturnedSuccess(r) THEN BodyMetric(r, "page_count") ELSE 0
        ELSE /\ Calls(r, "record_usage") = 0
             /\ usage_container[r] = <<>>

\* C31 witness: the handler raised, and the one record written for the
\* request says failure with no tokens and no pages.
C31_Witness ==
  \E r \in Requests :
    /\ pc[r] = "done"
    /\ result[r] = UnhandledException
    /\ "handler" \in Range(hist[r].steps)
    /\ Len(usage_container[r]) = 1
    /\ ~usage_container[r][1].success
    /\ usage_container[r][1].tokens_used = 0

\* C31, success case: one record with the tokens of the handler's 200.
C31_TokensRecorded ==
  \E r \in Requests :
    /\ pc[r] = "done"
    /\ result[r].status_code = 200
    /\ Len(usage_container[r]) = 1
    /\ usage_container[r][1].success
    /\ usage_container[r][1].tokens_used = 600

\* C31, refusal case: the handler returned a 400 and the record says failure.
C31_FailureRecorded ==
  \E r \in Requests :
    /\ pc[r] = "done"
    /\ result[r].status_code = 400
    /\ Len(usage_container[r]) = 1
    /\ ~usage_container[r][1].success

====
